---- MODULE Spec2Model ----
(***************************************************************************)
(* Model of neilo40/rigol_remote: the VISA capture session                 *)
(* (src/cmd/rigol_visa/main.go) and the USB probe session                  *)
(* (src/cmd/rigol_usb/main.go).                                            *)
(*                                                                         *)
(* The transport (VISA library, gousb) is outside the repository: every    *)
(* call into it returns one of the outcomes its signature allows, chosen   *)
(* nondeterministically.  Byte strings are sequences of one-character      *)
(* strings (text) or of numbers 0..255 (waveform samples).                 *)
(***************************************************************************)
EXTENDS Integers, Sequences, FiniteSets, TLC

VARIABLES
  prog,           \* which binary runs: "visa" or "usb"
  pc,             \* position in main
  handles,        \* handle name -> "none" | "open" | "closed"
  deferred,       \* main's stack of deferred calls, innermost first
  trace,          \* every transport call and sleep made so far, in order
  i,              \* loop index of the loop being executed or about to start
  d,              \* read buffer of the function being executed
  header,         \* main: header returned by FetchWaveformData
  data,           \* main: payload returned by FetchWaveformData
  preamble,       \* main: <<p>> once FetchPreamble returned p, else <<>>
  transitions,    \* main: timestamp -> pin values
  signalChanges,  \* main: pin index -> timestamp of change
  timestamp,      \* main: sample counter of the edge loop
  last,           \* main: previous sample byte of the edge loop
  err,            \* the error main ended with, "nil" when none
  exitCode,       \* process exit status, -1 while running
  shortAt,        \* trace index of the first short write of the running batch
  stopAt,         \* trace index of the read that delivered the STOP status
  failedAt        \* trace index of the first transport call that failed

vars == <<prog, pc, handles, deferred, trace, i, d, header, data, preamble,
          transitions, signalChanges, timestamp, last, err, exitCode,
          shortAt, stopAt, failedAt>>

(***************************************************************************)
(* Bounds of the model.                                                    *)
(***************************************************************************)
\* longest payload-plus-terminator tail of a waveform response in a session
MaxFrameTail == 3
\* longest payload handed to the edge loop when it is checked on its own
MaxSamples == 5

(***************************************************************************)
(* Text helpers.                                                           *)
(***************************************************************************)
\* []byte(msg) / string(d): a string as its sequence of characters
Chars(s) == [k \in 1..Len(s) |-> SubSeq(s, k, k)]

\* positions of the separator sep in s
SepPositions(s, sep) == {k \in 1..Len(s) : s[k] = sep}

\* strings.Split(s, sep) for a one-character separator: the pieces between
\* consecutive separators, empty pieces kept; always at least one piece
Split(s, sep) ==
  LET cuts == SepPositions(s, sep)
      n == Cardinality(cuts)
      \* the j-th separator position, 0 before the first, Len+1 after the last
      cut[j \in 0..(n + 1)] ==
        IF j = 0 THEN 0
        ELSE IF j = n + 1 THEN Len(s) + 1
        ELSE CHOOSE k \in cuts : Cardinality({c \in cuts : c < k}) = j - 1
  IN [j \in 1..(n + 1) |-> SubSeq(s, cut[j - 1] + 1, cut[j] - 1)]

\* strings.Split(string(d), "\n")[0]
FirstLine(b) == Split(b, "\n")[1]

(***************************************************************************)
(* VISA status codes and the wrappers around the instrument session.       *)
(***************************************************************************)
\* vi.SUCCESS
SUCCESS == 0

\* statuses the VISA library can return: an error, success, a warning
Statuses == {-1, 0, 1}

\* the test "status < vi.SUCCESS" of Init, Write and Read
StatusFailed(status) == status < SUCCESS

\* what one Instr.Write of msg can report: a status and a byte count
WriteOutcomes(msg) ==
  [status : Statuses, count : {0, Len(msg) - 1, Len(msg)}]

\* Rigol.Write: the error it returns ("nil" for none); the count is dropped
Write(msg, out) == IF StatusFailed(out.status) THEN "write" ELSE "nil"

\* Rigol.Read: the error it returns for a status
Read(status) == IF StatusFailed(status) THEN "read" ELSE "nil"

\* one entry of the trace
Event(op, arg, ok) == [op |-> op, arg |-> arg, ok |-> ok]

\* the trace after a transport write of msg
Wrote(msg, out) == Append(trace, Event("write", msg, ~StatusFailed(out.status)))

\* the trace after a transport read of at most max bytes
ReadCall(max, status) == Append(trace, Event("read", max, ~StatusFailed(status)))

(***************************************************************************)
(* Process exit.                                                           *)
(***************************************************************************)
HandleNames == {"ResourceManager", "Instr", "ctx", "dev", "intf"}

\* the handle one deferred call releases
Released(call) ==
  IF call = "r.Close" THEN {"Instr", "ResourceManager"}
  ELSE IF call = "done" THEN {"intf"}
  ELSE IF call = "dev.Close" THEN {"dev"}
  ELSE {"ctx"}

\* Rigol.Close, intf done(), dev.Close, ctx.Close: the handles after the
\* deferred calls in calls have all run
RunDeferred(calls) ==
  LET gone == UNION {Released(calls[k]) : k \in 1..Len(calls)}
  IN [h \in HandleNames |-> IF h \in gone THEN "closed" ELSE handles[h]]

\* log.Fatal: os.Exit(1) at once, deferred calls are not run
Fatal(e) ==
  /\ pc' = "exit"
  /\ err' = e
  /\ exitCode' = 1
  /\ deferred' = deferred

\* main returns: the deferred calls run, exit status 0
ReturnFromMain ==
  /\ pc' = "exit"
  /\ exitCode' = 0
  /\ handles' = RunDeferred(deferred)
  /\ deferred' = <<>>

\* main's "if err != nil { log.Fatal(err) }" after a call, then on to next
Check(e, next) ==
  IF e # "nil"
  THEN Fatal(e) /\ handles' = handles
  ELSE pc' = next /\ UNCHANGED <<err, exitCode, deferred, handles>>

\* a run-time panic (index or slice bounds out of range) unwinds main: the
\* deferred calls run, then the process dies with exit status 2
Panic ==
  /\ pc' = "exit"
  /\ err' = "panic"
  /\ exitCode' = 2
  /\ handles' = RunDeferred(deferred)
  /\ deferred' = <<>>

(***************************************************************************)
(* rigol_visa: Init and Trigger.                                           *)
(***************************************************************************)
\* Rigol.Init followed by main's check and "defer r.Close()"
RigolInit ==
  /\ prog = "visa" /\ pc = "Init"
  /\ \E rmStatus \in Statuses, openStatus \in Statuses :
       IF StatusFailed(rmStatus)
       THEN Fatal("init") /\ handles' = handles
       ELSE IF StatusFailed(openStatus)
       THEN /\ Fatal("init")
            /\ handles' = [handles EXCEPT !["ResourceManager"] = "open"]
       ELSE /\ handles' = [handles EXCEPT !["ResourceManager"] = "open",
                                          !["Instr"] = "open"]
            /\ deferred' = <<"r.Close">>
            /\ pc' = "Trigger"
            /\ UNCHANGED <<err, exitCode>>
  /\ i' = 1
  /\ UNCHANGED <<prog, trace, d, header, data, preamble, transitions,
                 signalChanges, timestamp, last, shortAt, stopAt, failedAt>>

\* the setup list of Rigol.Trigger
TriggerSetup ==
  << ":CHAN1:DISP ON", ":CHAN1:PROB 10", ":CHAN1:UNIT VOLT", ":CHAN1:SCAL 1",
     ":CHAN1:OFFS 0", ":CHAN2:DISP OFF", ":CHAN3:DISP OFF", ":CHAN4:DISP OFF",
     ":LA:STAT ON", ":LA:POD1:DISP ON", ":LA:POD1:THR 3", ":LA:POD2:DISP OFF",
     ":LA:POD2:THR 3", ":TRIG:MODE EDGE", ":TRIG:EDG:SOUR CHAN1",
     ":TRIG:EDG:SLOP POS", ":TRIG:EDG:LEV 3", ":ACQ:MDEP 125000",
     ":TIM:MAIN:SCAL 0.0002", ":ACQ:TYPE HRES", ":SING" >>

\* FetchSetup with the data query written before the stop point
FetchSetupDataFirst(source) ==
  << ":WAV:SOUR " \o source, ":WAV:MODE RAW", ":WAV:FORM BYTE", ":WAV:STAR 1",
     ":WAV:DATA?", ":WAV:STOP 125000" >>

\* the setup list of Rigol.FetchWaveformData
FetchSetup(source) ==
  << ":WAV:SOUR " \o source, ":WAV:MODE RAW", ":WAV:FORM BYTE", ":WAV:STAR 1",
     ":WAV:STOP 125000", ":WAV:DATA?" >>

\* what the transport and the bookkeeping see of one write of a batch
BatchWrite(msg, out) ==
  /\ trace' = Wrote(msg, out)
  /\ shortAt' = IF shortAt = 0 /\ out.count # Len(msg)
                THEN Len(trace) + 1 ELSE shortAt
  /\ failedAt' = IF failedAt = 0 /\ StatusFailed(out.status)
                 THEN Len(trace) + 1 ELSE failedAt

\* main's check of the error Trigger returned
MainAfterTrigger(e) == Check(e, "WaitForCapture")

\* TriggerCommand with the last two entries of the list exchanged
TriggerCommandSingEarly(k) ==
  TriggerSetup[IF k = 20 THEN 21 ELSE IF k = 21 THEN 20 ELSE k]

\* the command the range loop of Trigger sends in iteration k
TriggerCommand(k) == TriggerSetup[k]

\* one iteration of the range loop of Trigger; after the last, Trigger
\* returns nil
TriggerStep ==
  /\ prog = "visa" /\ pc = "Trigger"
  /\ \E out \in WriteOutcomes(TriggerCommand(i)) :
       /\ BatchWrite(TriggerCommand(i), out)
       /\ IF Write(TriggerCommand(i), out) # "nil"
          THEN MainAfterTrigger(Write(TriggerCommand(i), out)) /\ i' = 0
          ELSE IF i < Len(TriggerSetup)
          THEN i' = i + 1 /\ UNCHANGED <<pc, err, exitCode, deferred, handles>>
          ELSE MainAfterTrigger("nil") /\ i' = 0
  /\ UNCHANGED <<prog, d, header, data, preamble, transitions, signalChanges,
                 timestamp, last, stopAt>>

(***************************************************************************)
(* rigol_visa: WaitForCapture.                                             *)
(***************************************************************************)
\* the number of polls the for loop of WaitForCapture allows
MaxAttempts == 60

\* LoopCond with the bound off by one: "i <= 60"
LoopCondInclusive(k) == k <= MaxAttempts

\* the loop condition "i < 60" of WaitForCapture
LoopCond(k) == k < MaxAttempts

\* the test 'state == "STOP"' on the first line of the response b
CaptureStopped(b) == FirstLine(b) = Chars("STOP")

\* responses the instrument can give to a status query (at most 100 bytes)
StatusResponses ==
  { Chars("STOP\n"), Chars("STOP"), Chars("STOP\nRUN\n"), Chars("RUN\n"),
    Chars("WAIT\n"), Chars("TD\n"), Chars("STOPPED\n"), Chars("STOP \n"),
    Chars("\nSTOP\n"), Chars("stop\n"), Chars("") }

\* the transport delivered a response whose first line is exactly STOP: the
\* whole response is STOP, or it starts with STOP and a line end
StopDelivered(b) ==
  \/ b = <<"S", "T", "O", "P">>
  \/ Len(b) >= 5 /\ SubSeq(b, 1, 5) = <<"S", "T", "O", "P", "\n">>

\* MainAfterWait without the check: main goes on whatever was returned
MainAfterWaitUnchecked(e) ==
  pc' = "FetchWaveformData" /\ UNCHANGED <<err, exitCode, deferred, handles>>

\* main's check of the error WaitForCapture returned
MainAfterWait(e) == Check(e, "FetchWaveformData")

\* WaitSleep with no sleep before the first status query
WaitSleepAfterFirst ==
  /\ prog = "visa" /\ pc = "WaitForCapture"
  /\ LoopCond(i)
  /\ trace' = IF i = 0 THEN trace ELSE Append(trace, Event("sleep", 1, TRUE))
  /\ pc' = "Wait_Write"
  /\ shortAt' = 0
  /\ UNCHANGED <<prog, handles, deferred, i, d, header, data, preamble,
                 transitions, signalChanges, timestamp, last, err, exitCode,
                 stopAt, failedAt>>

\* top of the loop with the condition true: time.Sleep(1 * time.Second)
WaitSleep ==
  /\ prog = "visa" /\ pc = "WaitForCapture"
  /\ LoopCond(i)
  /\ trace' = Append(trace, Event("sleep", 1, TRUE))
  /\ pc' = "Wait_Write"
  /\ shortAt' = 0
  /\ UNCHANGED <<prog, handles, deferred, i, d, header, data, preamble,
                 transitions, signalChanges, timestamp, last, err, exitCode,
                 stopAt, failedAt>>

\* top of the loop with the condition false: the timeout error is returned
WaitTimeout ==
  /\ prog = "visa" /\ pc = "WaitForCapture"
  /\ ~LoopCond(i)
  /\ MainAfterWait("timeout")
  /\ i' = 1
  /\ shortAt' = 0
  /\ UNCHANGED <<prog, trace, d, header, data, preamble, transitions,
                 signalChanges, timestamp, last, stopAt, failedAt>>

\* r.Write("TRIG:STAT?") and the return on its error
WaitWrite ==
  /\ prog = "visa" /\ pc = "Wait_Write"
  /\ \E out \in WriteOutcomes("TRIG:STAT?") :
       /\ trace' = Wrote("TRIG:STAT?", out)
       /\ failedAt' = IF failedAt = 0 /\ StatusFailed(out.status)
                      THEN Len(trace) + 1 ELSE failedAt
       /\ IF Write("TRIG:STAT?", out) # "nil"
          THEN MainAfterWait(Write("TRIG:STAT?", out)) /\ i' = 1
          ELSE /\ pc' = "Wait_Read"
               /\ UNCHANGED <<i, err, exitCode, deferred, handles>>
  /\ UNCHANGED <<prog, d, header, data, preamble, transitions,
                 signalChanges, timestamp, last, shortAt, stopAt>>

\* r.Read(100), the comparison of the first line, and the end of the
\* iteration (i++) or the return
WaitRead ==
  /\ prog = "visa" /\ pc = "Wait_Read"
  /\ \E status \in Statuses, b \in StatusResponses :
       /\ trace' = ReadCall(100, status)
       /\ failedAt' = IF failedAt = 0 /\ StatusFailed(status)
                      THEN Len(trace) + 1 ELSE failedAt
       /\ stopAt' = IF stopAt = 0 /\ ~StatusFailed(status) /\ StopDelivered(b)
                    THEN Len(trace) + 1 ELSE stopAt
       /\ IF Read(status) # "nil"
          THEN MainAfterWait(Read(status)) /\ i' = 1
          ELSE IF CaptureStopped(b)
          THEN MainAfterWait("nil") /\ i' = 1
          ELSE /\ i' = i + 1
               /\ pc' = "WaitForCapture"
               /\ UNCHANGED <<err, exitCode, deferred, handles>>
  /\ UNCHANGED <<prog, d, header, data, preamble, transitions, signalChanges,
                 timestamp, last, shortAt>>

(***************************************************************************)
(* rigol_visa: FetchWaveformData.                                          *)
(***************************************************************************)
\* main's check of the error FetchWaveformData returned
MainAfterFetch(e) == Check(e, "FetchPreamble")

\* one iteration of the range loop of FetchWaveformData("D0")
FetchWriteStep ==
  /\ prog = "visa" /\ pc = "FetchWaveformData"
  /\ \E out \in WriteOutcomes(FetchSetup("D0")[i]) :
       /\ BatchWrite(FetchSetup("D0")[i], out)
       /\ IF Write(FetchSetup("D0")[i], out) # "nil"
          THEN MainAfterFetch(Write(FetchSetup("D0")[i], out)) /\ i' = 0
          ELSE /\ IF i < Len(FetchSetup("D0"))
                  THEN i' = i + 1 /\ pc' = pc
                  ELSE i' = 0 /\ pc' = "Fetch_Read"
               /\ UNCHANGED <<err, exitCode, deferred, handles>>
  /\ UNCHANGED <<prog, d, header, data, preamble, transitions, signalChanges,
                 timestamp, last, stopAt>>

\* the 11 header bytes of the responses fed to the model: "#9000000123"
HeaderBytes == <<35, 57, 48, 48, 48, 48, 48, 48, 49, 50, 51>>

\* byte values of the tails of the responses of a session
FrameBytes == {1, 10}

\* all sequences over S of length 0..n
SeqsUpTo(S, n) == UNION {[1..k -> S] : k \in 0..n}

\* responses the instrument can give to the data query: a response cut short
\* inside the 12 framing bytes, or a header followed by a non-empty tail
WaveResponses ==
  {SubSeq(HeaderBytes \o <<10>>, 1, n) : n \in 0..11}
    \cup {HeaderBytes \o t : t \in SeqsUpTo(FrameBytes, MaxFrameTail) \ {<<>>}}

\* r.Read(125000) and the return on its error
FetchRead ==
  /\ prog = "visa" /\ pc = "Fetch_Read"
  /\ \E status \in Statuses :
       /\ trace' = ReadCall(125000, status)
       /\ failedAt' = IF failedAt = 0 /\ StatusFailed(status)
                      THEN Len(trace) + 1 ELSE failedAt
       /\ IF Read(status) # "nil"
          THEN MainAfterFetch(Read(status)) /\ d' = d
          ELSE /\ \E b \in WaveResponses : d' = b
               /\ pc' = "Fetch_Return"
               /\ UNCHANGED <<err, exitCode, deferred, handles>>
  /\ shortAt' = 0
  /\ UNCHANGED <<prog, i, header, data, preamble, transitions, signalChanges,
                 timestamp, last, stopAt>>

\* a Go slice expression s[lo:hi] on a slice of capacity cap is in range
SliceInRange(lo, hi, cap) == 0 <= lo /\ lo <= hi /\ hi <= cap

\* s[lo:hi] for an expression in range, hi within the length of s
Slice(s, lo, hi) == SubSeq(s, lo + 1, hi)

\* the header expression d[0:11]
HeaderOf(b) == Slice(b, 0, 11)

\* DataOf with the upper index off by one: d[11:len(d)]
DataOfWithTerminator(b) == Slice(b, 11, Len(b))

\* the data expression d[11 : len(d)-1]
DataOf(b) == Slice(b, 11, Len(b) - 1)

\* "return d[0:11], d[11 : len(d)-1], nil": both slice expressions are
\* evaluated, either can panic; the capacity of d is the library's choice
FetchReturn ==
  /\ prog = "visa" /\ pc = "Fetch_Return"
  /\ \E cap \in {Len(d), 125000} :
       IF SliceInRange(0, 11, cap) /\ SliceInRange(11, Len(d) - 1, cap)
       THEN /\ header' = HeaderOf(d)
            /\ data' = DataOf(d)
            /\ MainAfterFetch("nil")
       ELSE Panic /\ UNCHANGED <<header, data>>
  /\ d' = <<>>
  /\ UNCHANGED <<prog, trace, i, preamble, transitions, signalChanges,
                 timestamp, last, shortAt, stopAt, failedAt>>

(***************************************************************************)
(* strconv.ParseInt(s, 10, 64) and strconv.ParseFloat(s, 64) on tokens of  *)
(* fewer than 10 digits without "_", a 0x prefix or an inf/nan spelling.   *)
(***************************************************************************)
IsDigit(c) == c \in {"0", "1", "2", "3", "4", "5", "6", "7", "8", "9"}

DigitValue(c) == CHOOSE v \in 0..9 : Chars("0123456789")[v + 1] = c

\* the number a string of decimal digits denotes
RECURSIVE DecimalValue(_)
DecimalValue(s) ==
  IF Len(s) = 0 THEN 0
  ELSE 10 * DecimalValue(SubSeq(s, 1, Len(s) - 1)) + DigitValue(s[Len(s)])

AllDigits(s) == \A k \in 1..Len(s) : IsDigit(s[k])

HasSign(s) == Len(s) > 0 /\ s[1] \in {"+", "-"}

\* s without its leading sign
Unsigned(s) == IF HasSign(s) THEN Tail(s) ELSE s

\* ParseInt succeeds: an optional sign, then one or more decimal digits
ParseIntOk(s) == Len(Unsigned(s)) > 0 /\ AllDigits(Unsigned(s))

\* the value ParseInt returns when it succeeds
ParseIntValue(s) ==
  IF HasSign(s) /\ s[1] = "-"
  THEN 0 - DecimalValue(Unsigned(s)) ELSE DecimalValue(Unsigned(s))

\* position of the exponent marker of a float token, 0 if it has none
ExpMark(s) ==
  LET marks == {k \in 1..Len(s) : s[k] \in {"e", "E"}}
  IN IF marks = {} THEN 0 ELSE CHOOSE k \in marks : \A m \in marks : k <= m

\* the mantissa of a float token: its text before the exponent marker
Mantissa(s) == IF ExpMark(s) = 0 THEN s ELSE SubSeq(s, 1, ExpMark(s) - 1)

\* the exponent of a float token: its text after the exponent marker
Exponent(s) == SubSeq(s, ExpMark(s) + 1, Len(s))

\* the digits of a mantissa, its decimal point removed
MantissaDigits(m) == SelectSeq(m, LAMBDA c : c # ".")

\* the number of digits after the decimal point of a mantissa
FractionDigits(m) ==
  LET dots == {k \in 1..Len(m) : m[k] = "."}
  IN IF dots = {} THEN 0 ELSE Len(m) - (CHOOSE k \in dots : TRUE)

\* ParseFloat succeeds: an optional sign, digits with at most one decimal
\* point and at least one digit, then optionally e or E, an optional sign
\* and one or more digits; nothing may follow
ParseFloatOk(s) ==
  LET u == Unsigned(s)
      m == Mantissa(u)
  IN /\ Cardinality({k \in 1..Len(m) : m[k] = "."}) <= 1
     /\ Len(MantissaDigits(m)) > 0
     /\ AllDigits(MantissaDigits(m))
     /\ ExpMark(u) # 0 =>
          /\ Len(Unsigned(Exponent(u))) > 0
          /\ AllDigits(Unsigned(Exponent(u)))

\* m * 10^e with the trailing zeros of m moved into e; zero is <<0, 0>>
RECURSIVE Normal(_, _)
Normal(m, e) ==
  IF m = 0 THEN <<0, 0>>
  ELSE IF m % 10 = 0 THEN Normal(m \div 10, e + 1)
  ELSE <<m, e>>

\* the value ParseFloat returns when it succeeds, as the decimal number
\* <<m, e>> = m * 10^e it reads (the rounding to a float64 is left out)
ParseFloatValue(s) ==
  LET u == Unsigned(s)
      m == Mantissa(u)
      mag == DecimalValue(MantissaDigits(m))
      ex == IF ExpMark(u) = 0 THEN 0 ELSE ParseIntValue(Exponent(u))
  IN Normal(IF HasSign(s) /\ s[1] = "-" THEN 0 - mag ELSE mag,
            ex - FractionDigits(m))

(***************************************************************************)
(* rigol_visa: FetchPreamble.                                              *)
(***************************************************************************)
\* the fields of Preamble in the order FetchPreamble fills them
PreambleFields ==
  << "Format", "Type", "Points", "Count", "Xincrement", "Xorigin", "Xref",
     "Yincrement", "Yorigin", "Yref" >>

\* the fields FetchPreamble reads with ParseFloat; the others use ParseInt
FloatFields == {"Xincrement", "Xorigin", "Yincrement"}

\* the k-th parse of FetchPreamble succeeds on the token tok
FieldOk(k, tok) ==
  IF PreambleFields[k] \in FloatFields THEN ParseFloatOk(tok) ELSE ParseIntOk(tok)

\* the value the k-th parse of FetchPreamble stores
FieldValue(k, tok) ==
  IF PreambleFields[k] \in FloatFields
  THEN ParseFloatValue(tok) ELSE ParseIntValue(tok)

\* FirstBad with the steps examined from the last field backwards
FirstBadLast(parts) ==
  LET bad == {k \in 1..Len(PreambleFields) :
                k > Len(parts) \/ ~FieldOk(k, parts[k])}
  IN IF bad = {} THEN 0 ELSE CHOOSE k \in bad : \A m \in bad : k >= m

\* the first of the ten steps of FetchPreamble that does not complete: it
\* indexes past the end of parts, or its parse fails; 0 if all complete
FirstBad(parts) ==
  LET bad == {k \in 1..Len(PreambleFields) :
                k > Len(parts) \/ ~FieldOk(k, parts[k])}
  IN IF bad = {} THEN 0 ELSE CHOOSE k \in bad : \A m \in bad : k <= m

\* the parts FetchPreamble parses: the first line of b split at commas
PartsOf(b) == Split(FirstLine(b), ",")

\* how the parsing of FetchPreamble ends on the response b: "panic" (index
\* out of range), "parse" (it returns the strconv error) or "nil"
ParseOutcome(b) ==
  IF FirstBad(PartsOf(b)) = 0 THEN "nil"
  ELSE IF FirstBad(PartsOf(b)) > Len(PartsOf(b)) THEN "panic"
  ELSE "parse"

\* the bytes of a token as a string
RECURSIVE Join(_)
Join(tok) == IF tok = <<>> THEN "" ELSE tok[1] \o Join(Tail(tok))

\* the *strconv.NumError that the parse of field k returns on token tok
ParseError(k, tok) ==
  "strconv." \o (IF PreambleFields[k] \in FloatFields
                  THEN "ParseFloat" ELSE "ParseInt")
             \o ": parsing \"" \o Join(tok) \o "\": invalid syntax"

\* e is an error of strconv
IsParseError(e) == Len(e) >= 8 /\ SubSeq(e, 1, 8) = "strconv."

\* the error FetchPreamble returns on the response b when it returns
FetchPreambleError(b) ==
  IF ParseOutcome(b) = "parse"
  THEN ParseError(FirstBad(PartsOf(b)), PartsOf(b)[FirstBad(PartsOf(b))])
  ELSE "nil"

\* the Preamble FetchPreamble returns when all ten parses succeed
PreambleOf(b) ==
  [f \in {PreambleFields[k] : k \in 1..Len(PreambleFields)} |->
     LET k == CHOOSE j \in 1..Len(PreambleFields) : PreambleFields[j] = f
     IN FieldValue(k, PartsOf(b)[k])]

\* responses the instrument can give to the preamble query (at most 100 bytes)
PreambleResponses ==
  { Chars("0,2,2,1,2.0e-07,-3.0e-03,0,1,0,0\n"),
    Chars("0,2,1,1,0.0002,0,0,1.,0,0"),
    Chars("0,2,0,1,0.0002,0,0,1,0,0,9\n"),
    Chars("7,2,-1,0,.5,0,0,1,0,0\n"),
    Chars("1,2,1000"),
    Chars("1,2,x"),
    Chars("x,2,1000,1,0.1,0,0,1,0,0"),
    Chars("0,2,2,1,x,0,0,1,0,0\n"),
    Chars("0,y,2,1,x,0,0,1,0,0\n"),
    Chars("0,2,2,1,0.0002,0,1.5,1,0,0\n"),
    Chars("0,2,2,1,0.0002,0,0,1e,0,0\n"),
    Chars("0,2,2,1,0.0002,0,0,1,0\n"),
    Chars("0,2,2,1,0.0002,0,0,1,0,\n"),
    Chars("0,2,2,1,0.0002,0,0,1,0,0x\n"),
    Chars("0,2\n2,1,0.0002,0,0,1,0,0"),
    Chars("") }

\* main's check of the error FetchPreamble returned
MainAfterPreamble(e) == Check(e, "edges")

\* r.Write(":WAV:PRE?") and the return on its error
PreambleWrite ==
  /\ prog = "visa" /\ pc = "FetchPreamble"
  /\ \E out \in WriteOutcomes(":WAV:PRE?") :
       /\ trace' = Wrote(":WAV:PRE?", out)
       /\ failedAt' = IF failedAt = 0 /\ StatusFailed(out.status)
                      THEN Len(trace) + 1 ELSE failedAt
       /\ IF Write(":WAV:PRE?", out) # "nil"
          THEN MainAfterPreamble(Write(":WAV:PRE?", out))
          ELSE pc' = "Preamble_Read" /\ UNCHANGED <<err, exitCode, deferred, handles>>
  /\ UNCHANGED <<prog, i, d, header, data, preamble, transitions,
                 signalChanges, timestamp, last, shortAt, stopAt>>

\* r.Read(100) and the return on its error
PreambleRead ==
  /\ prog = "visa" /\ pc = "Preamble_Read"
  /\ \E status \in Statuses :
       /\ trace' = ReadCall(100, status)
       /\ failedAt' = IF failedAt = 0 /\ StatusFailed(status)
                      THEN Len(trace) + 1 ELSE failedAt
       /\ IF Read(status) # "nil"
          THEN MainAfterPreamble(Read(status)) /\ d' = d
          ELSE /\ \E b \in PreambleResponses : d' = b
               /\ pc' = "Preamble_Parse"
               /\ UNCHANGED <<err, exitCode, deferred, handles>>
  /\ UNCHANGED <<prog, i, header, data, preamble, transitions, signalChanges,
                 timestamp, last, shortAt, stopAt>>

\* the ten parse steps of FetchPreamble on the response read, its return,
\* main's check and prints, and the set-up of the edge loop
PreambleParse ==
  /\ prog = "visa" /\ pc = "Preamble_Parse"
  /\ IF ParseOutcome(d) = "panic"
     THEN Panic /\ UNCHANGED <<preamble, transitions, i>>
     ELSE /\ MainAfterPreamble(FetchPreambleError(d))
          /\ IF ParseOutcome(d) = "nil"
             THEN /\ preamble' = <<PreambleOf(d)>>
                  /\ transitions' = (0 :> 0)
                  /\ i' = 1
             ELSE UNCHANGED <<preamble, transitions, i>>
  /\ d' = <<>>
  /\ UNCHANGED <<prog, trace, header, data, signalChanges, timestamp, last,
                 shortAt, stopAt, failedAt>>

(***************************************************************************)
(* rigol_visa: the edge loop of main.                                      *)
(***************************************************************************)
\* the pins map of main: signal name -> bit of the sample byte
pins == [RD |-> 0, MREQ |-> 1, A15 |-> 2, A14 |-> 3, ROMCS |-> 4]

\* 2^k
RECURSIVE Pow2(_)
Pow2(k) == IF k = 0 THEN 1 ELSE 2 * Pow2(k - 1)

\* x & 1 on a byte
And1(x) == x % 2

\* x << k on a byte: the result is a byte again
Shl(x, k) == (x * Pow2(k)) % 256

\* the test "b&1<<i != last&1<<i" of the edge loop for i = k; in Go & and <<
\* have the same precedence and associate to the left: (b&1)<<i
PinChanged(b, l, k) == Shl(And1(b), k) # Shl(And1(l), k)

\* the indices the inner loop "for i := 0; i < len(pins); i++" runs over
PinIndices == 0..(Cardinality(DOMAIN pins) - 1)

\* SignalChangesAfter with timestamp incremented before the inner loop
SignalChangesAfterLate(sc, b, l, ts) ==
  LET hit == {k \in PinIndices : PinChanged(b, l, k)}
  IN [k \in (DOMAIN sc) \cup hit |-> IF k \in hit THEN ts + 1 ELSE sc[k]]

\* signalChanges after the inner loop has run at timestamp ts on byte b
SignalChangesAfter(sc, b, l, ts) ==
  LET hit == {k \in PinIndices : PinChanged(b, l, k)}
  IN [k \in (DOMAIN sc) \cup hit |-> IF k \in hit THEN ts ELSE sc[k]]

\* ByteChanged looking only at the bits of the byte that pins names
ByteChangedOnPins(b, l) == b % Pow2(Cardinality(DOMAIN pins)) # l % Pow2(Cardinality(DOMAIN pins))

\* the test "if b != last" of the edge loop
ByteChanged(b, l) == b # l

\* one iteration of "for _, b := range data"
EdgeStep ==
  /\ prog = "visa" /\ pc = "edges"
  /\ i <= Len(data)
  /\ IF ByteChanged(data[i], last)
     THEN /\ transitions' = [k \in (DOMAIN transitions) \cup {timestamp} |->
                               IF k = timestamp THEN data[i] ELSE transitions[k]]
          /\ signalChanges' = SignalChangesAfter(signalChanges, data[i], last, timestamp)
     ELSE UNCHANGED <<transitions, signalChanges>>
  /\ last' = data[i]
  /\ timestamp' = timestamp + 1
  /\ i' = i + 1
  /\ UNCHANGED <<prog, pc, handles, deferred, trace, d, header, data, preamble,
                 err, exitCode, shortAt, stopAt, failedAt>>

\* the range loop is over: main returns and its deferred r.Close() runs
EdgeDone ==
  /\ prog = "visa" /\ pc = "edges"
  /\ i > Len(data)
  /\ ReturnFromMain
  /\ UNCHANGED <<prog, trace, i, d, header, data, preamble, transitions,
                 signalChanges, timestamp, last, err, shortAt, stopAt, failedAt>>

(***************************************************************************)
(* rigol_usb: main.                                                        *)
(***************************************************************************)
\* the variables main of rigol_usb never touches
visaOnly == <<prog, i, d, header, data, preamble, transitions, signalChanges,
              timestamp, last, shortAt, stopAt>>

\* ctx := gousb.NewContext(); defer ctx.Close()
UsbNewContext ==
  /\ prog = "usb" /\ pc = "NewContext"
  /\ handles' = [handles EXCEPT !["ctx"] = "open"]
  /\ deferred' = <<"ctx.Close">>
  /\ pc' = "OpenDevice"
  /\ UNCHANGED <<trace, err, exitCode, failedAt>>
  /\ UNCHANGED visaOnly

\* ctx.OpenDeviceWithVIDPID, the two checks and "defer dev.Close()"
UsbOpenDevice ==
  /\ prog = "usb" /\ pc = "OpenDevice"
  /\ \E found \in BOOLEAN, failed \in BOOLEAN :
       IF ~found
       THEN Fatal("notfound") /\ handles' = handles
       ELSE IF failed
       THEN Fatal("open") /\ handles' = [handles EXCEPT !["dev"] = "open"]
       ELSE /\ handles' = [handles EXCEPT !["dev"] = "open"]
            /\ deferred' = <<"dev.Close">> \o deferred
            /\ pc' = "DefaultInterface"
            /\ UNCHANGED <<err, exitCode>>
  /\ UNCHANGED <<trace, failedAt>>
  /\ UNCHANGED visaOnly

\* dev.DefaultInterface(), its check and "defer done()"
UsbDefaultInterface ==
  /\ prog = "usb" /\ pc = "DefaultInterface"
  /\ \E failed \in BOOLEAN :
       IF failed
       THEN Fatal("interface") /\ handles' = handles
       ELSE /\ handles' = [handles EXCEPT !["intf"] = "open"]
            /\ deferred' = <<"done">> \o deferred
            /\ pc' = "OutEndpoint"
            /\ UNCHANGED <<err, exitCode>>
  /\ UNCHANGED <<trace, failedAt>>
  /\ UNCHANGED visaOnly

\* intf.OutEndpoint(3) and its check
UsbOutEndpoint ==
  /\ prog = "usb" /\ pc = "OutEndpoint"
  /\ \E failed \in BOOLEAN : Check(IF failed THEN "endpoint" ELSE "nil", "InEndpoint")
  /\ UNCHANGED <<trace, failedAt>>
  /\ UNCHANGED visaOnly

\* intf.InEndpoint(1) and its check
UsbInEndpoint ==
  /\ prog = "usb" /\ pc = "InEndpoint"
  /\ \E failed \in BOOLEAN : Check(IF failed THEN "endpoint" ELSE "nil", "UsbWrite")
  /\ UNCHANGED <<trace, failedAt>>
  /\ UNCHANGED visaOnly

\* the test "numBytes != 5" after epOut.Write: the error main dies with
UsbWriteCheck(numBytes, failed) == IF numBytes # 5 THEN "write" ELSE "nil"

\* what epOut.Write of msg can report: a byte count and whether err is
\* non-nil; a transfer that moved every byte has completed without error
UsbWriteOutcomes(msg) ==
  {out \in [numBytes : 0..Len(msg), failed : BOOLEAN] :
     out.numBytes = Len(msg) => ~out.failed}

\* epOut.Write([]byte("*IDN?")) and the check of the byte count
UsbWrite ==
  /\ prog = "usb" /\ pc = "UsbWrite"
  /\ \E out \in UsbWriteOutcomes("*IDN?") :
     LET numBytes == out.numBytes
         failed == out.failed
     IN
       /\ trace' = Append(trace, Event("write", "*IDN?", ~failed))
       /\ failedAt' = IF failedAt = 0 /\ failed THEN Len(trace) + 1 ELSE failedAt
       /\ Check(UsbWriteCheck(numBytes, failed), "UsbRead")
  /\ UNCHANGED visaOnly

\* what main does with the error of epIn.Read: it prints it and goes on
UsbReadCheck(failed) == "nil"

\* time.Sleep, epIn.Read(buf), the prints, and the return of main
UsbRead ==
  /\ prog = "usb" /\ pc = "UsbRead"
  /\ \E failed \in BOOLEAN :
       /\ trace' = trace \o << Event("sleep", 1, TRUE),
                              Event("read", "10*MaxPacketSize", ~failed) >>
       /\ failedAt' = IF failedAt = 0 /\ failed THEN Len(trace) + 2 ELSE failedAt
       /\ IF UsbReadCheck(failed) # "nil"
          THEN Fatal(UsbReadCheck(failed)) /\ handles' = handles
          ELSE ReturnFromMain /\ err' = err
  /\ UNCHANGED visaOnly

(***************************************************************************)
(* The two programs.                                                       *)
(***************************************************************************)
NoHandles == [h \in HandleNames |-> "none"]

Init ==
  /\ prog \in {"visa", "usb"}
  /\ pc = IF prog = "visa" THEN "Init" ELSE "NewContext"
  /\ handles = NoHandles
  /\ deferred = <<>>
  /\ trace = <<>>
  /\ i = 0
  /\ d = <<>>
  /\ header = <<>>
  /\ data = <<>>
  /\ preamble = <<>>
  /\ transitions = <<>>
  /\ signalChanges = <<>>
  /\ timestamp = 0
  /\ last = 0
  /\ err = "nil"
  /\ exitCode = -1
  /\ shortAt = 0
  /\ stopAt = 0
  /\ failedAt = 0

Next ==
  \/ RigolInit
  \/ TriggerStep
  \/ WaitSleep
  \/ WaitTimeout
  \/ WaitWrite
  \/ WaitRead
  \/ FetchWriteStep
  \/ FetchRead
  \/ FetchReturn
  \/ PreambleWrite
  \/ PreambleRead
  \/ PreambleParse
  \/ EdgeStep
  \/ EdgeDone
  \/ UsbNewContext
  \/ UsbOpenDevice
  \/ UsbDefaultInterface
  \/ UsbOutEndpoint
  \/ UsbInEndpoint
  \/ UsbWrite
  \/ UsbRead

Spec == Init /\ [][Next]_vars

(***************************************************************************)
(* The edge loop on its own: main has reached the loop after a session in  *)
(* which every call succeeded and the first poll read STOP, with any       *)
(* payload of up to MaxSamples bytes.                                      *)
(***************************************************************************)
\* sample byte values of the payloads handed to the edge loop
SampleBytes == {0, 1, 3, 18, 32}

\* the trace of a session in which every call succeeds and the first poll
\* reads STOP
SuccessTrace ==
  [k \in 1..Len(TriggerSetup) |-> Event("write", TriggerSetup[k], TRUE)]
    \o << Event("sleep", 1, TRUE), Event("write", "TRIG:STAT?", TRUE),
          Event("read", 100, TRUE) >>
    \o [k \in 1..Len(FetchSetup("D0")) |-> Event("write", FetchSetup("D0")[k], TRUE)]
    \o << Event("read", 125000, TRUE), Event("write", ":WAV:PRE?", TRUE),
          Event("read", 100, TRUE) >>

InitEdge ==
  /\ prog = "visa"
  /\ pc = "edges"
  /\ handles = [NoHandles EXCEPT !["ResourceManager"] = "open", !["Instr"] = "open"]
  /\ deferred = <<"r.Close">>
  /\ trace = SuccessTrace
  /\ i = 1
  /\ d = <<>>
  /\ header = HeaderBytes
  /\ data \in SeqsUpTo(SampleBytes, MaxSamples)
  /\ preamble = <<PreambleOf(Chars("0,2,2,1,2.0e-07,-3.0e-03,0,1,0,0\n"))>>
  /\ transitions = (0 :> 0)
  /\ signalChanges = <<>>
  /\ timestamp = 0
  /\ last = 0
  /\ err = "nil"
  /\ exitCode = -1
  /\ shortAt = 0
  /\ stopAt = Len(TriggerSetup) + 3
  /\ failedAt = 0

NextEdge ==
  \/ EdgeStep
  \/ EdgeDone

SpecEdge == InitEdge /\ [][NextEdge]_vars

(***************************************************************************)
(* Properties.                                                             *)
(***************************************************************************)
\* the positions of the trace
Positions == 1..Len(trace)

\* trace position k is a transport write of the command msg
IsWriteOf(k, msg) == trace[k].op = "write" /\ trace[k].arg = msg

\* trace position k is a call into the transport (not a sleep)
IsTransportCall(k) == trace[k].op \in {"write", "read"}

\* C1: in a batch (Trigger, FetchWaveformData), the first write that reports
\* a byte count different from the command's length ends the batch with an
\* error, and that write is the last call the transport sees.
C1_PartialWriteAborts ==
  shortAt # 0 => pc = "exit" /\ err = "write" /\ Len(trace) = shortAt

\* the number of status queries written so far
StatusPolls == Cardinality({k \in Positions : IsWriteOf(k, "TRIG:STAT?")})

\* the positions main is at once WaitForCapture has returned success
AfterCapture ==
  {"FetchWaveformData", "Fetch_Read", "Fetch_Return", "FetchPreamble",
   "Preamble_Read", "Preamble_Parse", "edges"}

\* C2: WaitForCapture never writes more than 60 status queries; it returns
\* the timeout error only after exactly 60 of them, none of which was
\* answered with a first line STOP; it returns success only once such an
\* answer was delivered, and after that answer it polls no more.
C2_WaitForCapture ==
  prog = "visa" =>
    /\ StatusPolls <= 60
    /\ err = "timeout" => StatusPolls = 60 /\ stopAt = 0
    /\ pc \in AfterCapture => stopAt # 0
    /\ stopAt # 0 =>
         /\ pc \in AfterCapture \/ pc = "exit"
         /\ err # "timeout"
         /\ \A k \in Positions : k > stopAt => ~IsWriteOf(k, "TRIG:STAT?")

\* C2 witness: the timeout after 60 unanswered polls
C2_Witness == err = "timeout" /\ StatusPolls = 60 /\ pc = "exit"

\* bit k of the byte b
Bit(b, k) == (b \div Pow2(k)) % 2

\* the sample indices at which bit k of the payload differs from bit k of
\* the byte before (the byte before index 0 being 0x00)
ChangesOf(k) ==
  {t \in 0..(Len(data) - 1) :
     Bit(data[t + 1], k) # Bit(IF t = 0 THEN 0 ELSE data[t], k)}

\* the greatest element of a non-empty set of numbers
Max(S) == CHOOSE x \in S : \A y \in S : y <= x

\* main has run the edge loop to its end
EdgesDone == prog = "visa" /\ pc = "exit" /\ exitCode = 0

\* C3: after edge extraction, every pin's recorded index is the last sample
\* index at which its bit changed, and a pin whose bit never changed has no
\* recorded index; payload 00 00 01 01 03 gives index 2 for bit 0 and 4 for
\* bit 1.
C3_LatestChangeIndex ==
  EdgesDone =>
    /\ \A name \in DOMAIN pins :
         IF ChangesOf(pins[name]) = {}
         THEN pins[name] \notin DOMAIN signalChanges
         ELSE /\ pins[name] \in DOMAIN signalChanges
              /\ signalChanges[pins[name]] = Max(ChangesOf(pins[name]))
    /\ data = <<0, 0, 1, 1, 3>> =>
         /\ {0, 1} \subseteq DOMAIN signalChanges
         /\ signalChanges[0] = 2
         /\ signalChanges[1] = 4

\* C4: when the data read succeeds with fewer than 12 bytes,
\* FetchWaveformData returns an error to main (no crash) and no frame.
C4_ShortRead ==
  [][pc = "Fetch_Return" /\ Len(d) < 12 =>
       /\ err' \notin {"nil", "panic"}
       /\ exitCode' = 1
       /\ header' = <<>> /\ data' = <<>>]_vars

\* the number of comma-separated fields of the first line of b
FieldCount(b) ==
  LET line == FirstLine(b)
  IN Cardinality({k \in 1..Len(line) : line[k] = ","}) + 1

\* some field of the first line of b that is expected to be numeric is not
HasNonNumericField(b) ==
  \E k \in 1..Len(PreambleFields) :
    k <= Len(PartsOf(b)) /\ ~FieldOk(k, PartsOf(b)[k])

\* C5: on a response line with fewer than 10 fields, or with a non-numeric
\* token in a numeric field, FetchPreamble returns an error to main (no
\* crash) and no Preamble.
C5_MalformedPreamble ==
  [][pc = "Preamble_Parse" /\ (FieldCount(d) < 10 \/ HasNonNumericField(d)) =>
       /\ IsParseError(err')
       /\ exitCode' = 1
       /\ preamble' = <<>>]_vars

\* C6: when the process has ended, no handle that was opened is still open.
C6_HandlesReleased ==
  pc = "exit" => \A h \in HandleNames : handles[h] # "open"

\* the write events of the trace, in order
Writes == SelectSeq(trace, LAMBDA e : e.op = "write")

\* the command msg begins with the text pre
StartsWith(msg, pre) == Len(msg) >= Len(pre) /\ SubSeq(msg, 1, Len(pre)) = pre

\* the group of the configuration sequence the k-th command belongs to:
\* channel setup, logic-analyzer setup, trigger setup, then memory depth,
\* timebase, acquisition type and the single-shot arm
GroupPrefix(k) ==
  IF k <= 8 THEN ":CHAN"
  ELSE IF k = 9 THEN ":LA:STAT ON"
  ELSE IF k <= 13 THEN ":LA:POD"
  ELSE IF k = 14 THEN ":TRIG:MODE"
  ELSE IF k <= 17 THEN ":TRIG:EDG:"
  ELSE IF k = 18 THEN ":ACQ:MDEP"
  ELSE IF k = 19 THEN ":TIM:MAIN:SCAL"
  ELSE IF k = 20 THEN ":ACQ:TYPE"
  ELSE ":SING"

\* C7: the commands the transport has seen during Trigger are a prefix of
\* the 21-command list, in the listed order, and :SING is written only as
\* the 21st write, after 20 writes that all succeeded.
C7_TriggerOrder ==
  prog = "visa" =>
    /\ \A k \in 1..Len(Writes) :
         k <= 21 => /\ Writes[k].arg = TriggerSetup[k]
                    /\ StartsWith(Writes[k].arg, GroupPrefix(k))
    /\ \A k \in Positions :
         IsWriteOf(k, ":SING") =>
           /\ k = 21
           /\ \A j \in 1..20 : trace[j].op = "write" /\ trace[j].ok

\* C7 witness: :SING was written, as the 21st command
C7_Witness ==
  prog = "visa" /\ Len(trace) >= 21 /\ IsWriteOf(21, ":SING") /\ trace[21].ok

\* trace position k is a write of a waveform or preamble command
IsWaveformWrite(k) ==
  trace[k].op = "write" /\ StartsWith(trace[k].arg, ":WAV:")

\* C8: a waveform or preamble command is written only after the whole
\* trigger sequence, after a poll that read STOP, and after nothing but
\* successful calls; the preamble query follows the data query; after a
\* timeout none is written; the edge loop runs only with both fetched.
C8_SessionOrder ==
  prog = "visa" =>
    /\ \A k \in Positions :
         IsWaveformWrite(k) =>
           /\ k > 21 /\ IsWriteOf(21, ":SING")
           /\ stopAt # 0 /\ stopAt < k
           /\ \A j \in 1..(k - 1) : trace[j].ok
    /\ \A k \in Positions :
         IsWriteOf(k, ":WAV:PRE?") =>
           \E j \in 1..(k - 1) : IsWriteOf(j, ":WAV:DATA?")
    /\ err = "timeout" => \A k \in Positions : ~IsWaveformWrite(k)
    /\ pc = "edges" =>
         /\ preamble # <<>>
         /\ \E k \in Positions : IsWriteOf(k, ":WAV:PRE?") /\ trace[k].ok

\* C8 witness: the preamble query was written after STOP was read on a
\* later poll than the first
C8_Witness ==
  /\ prog = "visa"
  /\ \E k \in Positions : IsWriteOf(k, ":WAV:PRE?")
  /\ stopAt > 24

\* C9: a response of n >= 12 bytes is split into header = bytes 0..10,
\* payload = bytes 11..n-2 in order (n - 12 of them), the byte at n-1 in
\* neither, and is returned without error.
C9_FrameSplit ==
  [][pc = "Fetch_Return" /\ Len(d) >= 12 =>
       /\ Len(header') = 11
       /\ \A k \in 1..11 : header'[k] = d[k]
       /\ Len(data') = Len(d) - 12
       /\ \A k \in 1..(Len(d) - 12) : data'[k] = d[11 + k]
       /\ err' = "nil"
       /\ pc' = "FetchPreamble"]_vars

\* C9 witness: a frame was returned whose payload holds two different bytes
C9_Witness ==
  /\ pc = "FetchPreamble"
  /\ header = HeaderBytes
  /\ Len(data) >= 2
  /\ data[1] # data[2]

\* C10: once a transport write or read has failed, the process has ended
\* with that error and the failed call is the last transport call made.
C10_FailureAborts ==
  failedAt # 0 =>
    /\ pc = "exit"
    /\ exitCode = 1
    /\ err \in {"write", "read"}
    /\ \A k \in Positions : k > failedAt => ~IsTransportCall(k)


(***************************************************************************)
(* FetchPreamble: what it returns.                                         *)
(***************************************************************************)
\* the fields of the first line of b, among the first ten, whose parse fails
FailingFields(b) ==
  {k \in 1..10 : k <= Len(PartsOf(b)) /\ ~FieldOk(k, PartsOf(b)[k])}

\* C11: FetchPreamble returns a Preamble only when all ten fields of the
\* response line parsed, and when some field fails to parse it returns no
\* Preamble and the error of the first failing field in positional order.
C11_NoPartialPreamble ==
  [][pc = "Preamble_Parse" =>
       /\ preamble' # <<>> =>
            /\ Len(PartsOf(d)) >= 10
            /\ FailingFields(d) = {}
            /\ Cardinality(DOMAIN preamble'[1]) = 10
       /\ FailingFields(d) # {} =>
            LET first == CHOOSE k \in FailingFields(d) :
                           \A m \in FailingFields(d) : k <= m
            IN /\ preamble' = <<>>
               /\ err' = ParseError(first, PartsOf(d)[first])
               /\ exitCode' = 1]_vars

\* a response line with two failing fields was rejected with the error of
\* the earlier one
C11_Witness ==
  /\ pc = "exit" /\ preamble = <<>>
  /\ err = "strconv.ParseInt: parsing \"y\": invalid syntax"


\* C12: a response line is accepted only if it has exactly 10
\* comma-separated fields; a line with more than 10 fields is rejected with
\* an error and yields no Preamble.
C12_ExactlyTenFields ==
  [][pc = "Preamble_Parse" =>
       /\ preamble' # <<>> => FieldCount(d) = 10
       /\ FieldCount(d) > 10 =>
            /\ preamble' = <<>>
            /\ IsParseError(err')
            /\ exitCode' = 1]_vars

\* C13: whenever a session reaches the edge loop, the length of the payload
\* equals the point count of the preamble; a capture whose payload length
\* differs from the reported point count is not processed.
C13_PayloadMatchesPoints ==
  prog = "visa" /\ pc = "edges" =>
    /\ preamble # <<>>
    /\ Len(data) = preamble[1].Points

\* C14: every Preamble returned has format and acquisition type in 0..2,
\* a point count >= 0 and an average count >= 1.
C14_PreambleRanges ==
  preamble # <<>> =>
    /\ preamble[1].Format \in {0, 1, 2}
    /\ preamble[1].Type \in {0, 1, 2}
    /\ preamble[1].Points >= 0
    /\ preamble[1].Count >= 1


(***************************************************************************)
(* The edge loop: the transition log.                                      *)
(***************************************************************************)
\* the sample indices k >= 1 whose byte differs from the byte before
ByteChanges == {k \in 1..(Len(data) - 1) : data[k + 1] # data[k]}

\* C15: after the edge loop has run over the payload (the empty one
\* included), the indices of the transition log are exactly 0 and every
\* k >= 1 with payload[k] # payload[k-1]; index 0 has an entry even when
\* the first byte is 0x00, and on a non-empty payload the value logged at
\* index k is payload[k].
C15_TransitionLog ==
  EdgesDone =>
    /\ DOMAIN transitions = {0} \cup ByteChanges
    /\ Len(data) = 0 => transitions[0] = 0
    /\ Len(data) > 0 =>
         \A k \in DOMAIN transitions : transitions[k] = data[k + 1]

\* the loop has run over a payload that starts with 0x00, has an index
\* where the byte changes and a later index where it does not
C15_Witness ==
  /\ EdgesDone
  /\ Len(data) >= 3 /\ data[1] = 0
  /\ \E k \in ByteChanges : \E m \in (k + 1)..(Len(data) - 1) :
        m \notin DOMAIN transitions


\* C19: at every step of the edge loop, each recorded per-signal index is
\* an index of the transition log and is smaller than the number of payload
\* bytes processed so far; no signal change is recorded at an index whose
\* byte equals the byte before.
C19_ChangeIsTransition ==
  prog = "visa" /\ (pc = "edges" \/ EdgesDone) =>
    \A k \in DOMAIN signalChanges :
      /\ signalChanges[k] \in DOMAIN transitions
      /\ signalChanges[k] >= 0 /\ signalChanges[k] < timestamp
      /\ timestamp = i - 1
      /\ data[signalChanges[k] + 1] #
           (IF signalChanges[k] = 0 THEN 0 ELSE data[signalChanges[k]])

\* in the middle of the loop a signal change is recorded at an index >= 1
\* and the byte processed last did not differ from the byte before it
C19_Witness ==
  /\ prog = "visa" /\ pc = "edges" /\ i <= Len(data)
  /\ \E k \in DOMAIN signalChanges : signalChanges[k] >= 1
  /\ timestamp >= 3 /\ data[timestamp] = data[timestamp - 1]


(***************************************************************************)
(* FetchWaveformData: what the transport sees.                             *)
(***************************************************************************)
\* the six commands of the waveform fetch for source D0
FetchCommands ==
  << ":WAV:SOUR D0", ":WAV:MODE RAW", ":WAV:FORM BYTE", ":WAV:STAR 1",
     ":WAV:STOP 125000", ":WAV:DATA?" >>

\* trace position k is the transport read of the waveform response
IsFrameRead(k) == trace[k].op = "read" /\ trace[k].arg = 125000

\* C17: FetchWaveformData writes :WAV:SOUR D0, :WAV:MODE RAW, :WAV:FORM BYTE,
\* :WAV:STAR 1, :WAV:STOP 125000, :WAV:DATA? in this order, and issues one
\* read of 125000 bytes only after all six writes succeeded; when one of the
\* six writes fails, no read is issued and no frame is returned.
C17_FetchOrder ==
  prog = "visa" =>
    /\ \A k \in Positions : \A n \in 1..6 :
         IsWriteOf(k, FetchCommands[n]) =>
           /\ n > 1 => k > 1 /\ IsWriteOf(k - 1, FetchCommands[n - 1])
                              /\ trace[k - 1].ok
           /\ trace[k].ok /\ k < Len(trace) =>
                IF n < 6 THEN IsWriteOf(k + 1, FetchCommands[n + 1])
                         ELSE IsFrameRead(k + 1)
           /\ ~trace[k].ok =>
                /\ k = Len(trace) /\ pc = "exit"
                /\ header = <<>> /\ data = <<>>
    /\ \A k \in Positions :
         IsFrameRead(k) =>
           /\ k > 6
           /\ \A n \in 1..6 : IsWriteOf(k - 7 + n, FetchCommands[n])
                                /\ trace[k - 7 + n].ok
    /\ \A n \in 1..6 :
         Cardinality({k \in Positions : IsWriteOf(k, FetchCommands[n])}) <= 1
    /\ Cardinality({k \in Positions : IsFrameRead(k)}) <= 1
    /\ header # <<>> \/ data # <<>> =>
         \E k \in Positions : IsFrameRead(k) /\ trace[k].ok

\* the six writes succeeded, the frame was read and returned
C17_Witness ==
  /\ prog = "visa" /\ header # <<>>
  /\ \E k \in Positions :
        /\ IsFrameRead(k) /\ trace[k].ok
        /\ IsWriteOf(k - 6, ":WAV:SOUR D0")


(***************************************************************************)
(* WaitForCapture: what the transport sees, and termination.               *)
(***************************************************************************)
\* trace position k is a read of at most 100 bytes that does not answer the
\* preamble query
IsStatusRead(k) ==
  /\ trace[k].op = "read" /\ trace[k].arg = 100
  /\ ~(k > 1 /\ IsWriteOf(k - 1, ":WAV:PRE?"))

\* C18: each poll tick of WaitForCapture is one sleep, then one write of the
\* status query, then one read of up to 100 bytes: status writes and reads
\* alternate starting with a write, no read is issued without its preceding
\* successful status write, and a sleep precedes every status query, the
\* first one included.
C18_PollTick ==
  prog = "visa" =>
    \A k \in Positions :
      /\ trace[k].op = "sleep" =>
           /\ trace[k].arg = 1
           /\ k > 1 /\ trace[k - 1].ok
           /\ IsWriteOf(k - 1, ":SING") \/ IsStatusRead(k - 1)
           /\ k < Len(trace) => IsWriteOf(k + 1, "TRIG:STAT?")
      /\ IsWriteOf(k, "TRIG:STAT?") =>
           /\ k > 1 /\ trace[k - 1].op = "sleep"
           /\ trace[k].ok /\ k < Len(trace) => IsStatusRead(k + 1)
           /\ ~trace[k].ok => k = Len(trace)
      /\ IsStatusRead(k) =>
           /\ k > 2
           /\ IsWriteOf(k - 1, "TRIG:STAT?") /\ trace[k - 1].ok
           /\ trace[k - 2].op = "sleep"

\* three whole ticks were performed
C18_Witness ==
  /\ prog = "visa" /\ StatusPolls = 3
  /\ IsStatusRead(Len(trace)) /\ trace[Len(trace)].ok
  /\ pc = "WaitForCapture"


\* the session is inside WaitForCapture
InWait == prog = "visa" /\ pc \in {"WaitForCapture", "Wait_Write", "Wait_Read"}

\* every sleep and every transport call of WaitForCapture returns
WaitFairness ==
  /\ WF_vars(WaitSleep) /\ WF_vars(WaitTimeout)
  /\ WF_vars(WaitWrite) /\ WF_vars(WaitRead)

\* the sessions in which the blocking calls of WaitForCapture return
SpecWait == Init /\ [][Next]_vars /\ WaitFairness

\* C20: provided every blocking call returns, WaitForCapture terminates: it
\* runs at most 60 loop iterations and leaves the loop with exactly one of
\* success (STOP read), timeout, or transport error.
C20_WaitTerminates ==
  /\ [](InWait => i \in 0..60 /\ (pc # "WaitForCapture" => i < 60))
  /\ [][InWait /\ ~InWait' =>
          \/ /\ pc' = "FetchWaveformData" /\ err' = "nil" /\ exitCode' = -1
             /\ stopAt' = Len(trace') /\ trace'[stopAt'].op = "read"
          \/ /\ pc' = "exit" /\ err' = "timeout" /\ exitCode' = 1
             /\ stopAt' = 0 /\ failedAt' = 0
          \/ /\ pc' = "exit" /\ err' \in {"write", "read"} /\ exitCode' = 1
             /\ stopAt' = 0 /\ failedAt' = Len(trace')]_vars
  /\ InWait ~> ~InWait

\* WaitForCapture returned success on its last iteration
C20_Witness ==
  /\ prog = "visa" /\ pc = "FetchWaveformData" /\ i = 1
  /\ StatusPolls = 60 /\ stopAt = Len(trace)

====
